---- MODULE Spec2Model ----
(***************************************************************************)
(* A model of the task-management backend in src/app.py: the tasks table,  *)
(* the token guard of the protected routes, and the request handlers       *)
(* get_tasks, add_task, update_task and delete_task with Flask's dispatch  *)
(* in front of them.                                                       *)
(*                                                                         *)
(* Strings are sequences of one-character strings, so that str.strip and   *)
(* int() are computed rather than assumed.  A JSON value of a request body *)
(* is a record [t, s, n]: t is its type ("absent" when the key is not in   *)
(* the body), s its characters when it is a string, n its number when it   *)
(* is an integer.                                                          *)
(***************************************************************************)
EXTENDS Integers, Sequences, FiniteSets, TLC

VARIABLES tasks, req, resp, workers

vars == <<tasks, req, resp, workers>>

\* Rows the tasks table may hold in the model (a bound of the model only).
MaxTasks == 2

-----------------------------------------------------------------------------
(* Strings and JSON values                                                 *)

EmptyStr == <<>>

Absent == [t |-> "absent", s |-> EmptyStr, n |-> 0]
Null == [t |-> "null", s |-> EmptyStr, n |-> 0]

JStr(chars) == [t |-> "str", s |-> chars, n |-> 0]

JInt(k) == [t |-> "int", s |-> EmptyStr, n |-> k]

Whitespace == {" ", "\t"}

RECURSIVE lstrip(_)
lstrip(s) ==
    IF s = <<>> THEN <<>>
    ELSE IF Head(s) \in Whitespace THEN lstrip(Tail(s))
    ELSE s

RECURSIVE rstrip(_)
rstrip(s) ==
    IF s = <<>> THEN <<>>
    ELSE IF s[Len(s)] \in Whitespace THEN rstrip(SubSeq(s, 1, Len(s) - 1))
    ELSE s

\* str.strip()
strip(s) == rstrip(lstrip(s))

Digits == <<"0", "1", "2", "3", "4", "5", "6", "7", "8", "9">>

IsDigit(c) == \E i \in 1..Len(Digits) : Digits[i] = c

DigitVal(c) == (CHOOSE i \in 1..Len(Digits) : Digits[i] = c) - 1

RECURSIVE ParseDigits(_, _)
ParseDigits(s, acc) ==
    IF s = <<>> THEN acc
    ELSE ParseDigits(Tail(s), acc * 10 + DigitVal(Head(s)))

\* int(x) of Python for the JSON values of the model: an integer is itself,
\* a string is parsed after stripping (ValueError unless it is all digits),
\* None is a TypeError.  [ok, n]: ok = FALSE when int() raises.
PyInt(v) ==
    IF v.t = "int" THEN [ok |-> TRUE, n |-> v.n]
    ELSE IF v.t = "str" /\ strip(v.s) # <<>>
            /\ \A i \in 1..Len(strip(v.s)) : IsDigit(strip(v.s)[i])
         THEN [ok |-> TRUE, n |-> ParseDigits(strip(v.s), 0)]
    ELSE [ok |-> FALSE, n |-> 0]

\* dict.get(key, default): the default only when the key is not in the body.
Get(v, default) == IF v.t = "absent" THEN default ELSE v

\* Python truthiness of a JSON value.
Truthy(v) ==
    \/ v.t = "str" /\ v.s # <<>>
    \/ v.t = "int" /\ v.n # 0

-----------------------------------------------------------------------------
(* Configuration and fixed enumerations of src/app.py                      *)

JWT_SECRET_KEY == "jwtsecretkey"

Work == <<"W", "o", "r", "k">>
Personal == <<"P", "e", "r", "s", "o", "n", "a", "l">>
Study == <<"S", "t", "u", "d", "y">>
Shopping == <<"S", "h", "o", "p", "p", "i", "n", "g">>
Other == <<"O", "t", "h", "e", "r">>
Low == <<"L", "o", "w">>
Medium == <<"M", "e", "d", "i", "u", "m">>
High == <<"H", "i", "g", "h">>

valid_categories == {Work, Personal, Study, Shopping, Other}

valid_priorities == {Low, Medium, High}


-----------------------------------------------------------------------------
(* Tokens and the guard of the protected routes                            *)

\* A bearer token as a request presents it: whether the Authorization header
\* is there, whether it decodes as a JWT, the key that signed it, whether
\* its exp claim has passed, and its subject (the identity).
NoToken == [present |-> FALSE, wellformed |-> FALSE, key |-> "", expired |-> FALSE, sub |-> 0]

\* create_access_token(identity): a token signed with the configured key.
create_access_token(identity) ==
    [present |-> TRUE, wellformed |-> TRUE, key |-> JWT_SECRET_KEY,
     expired |-> FALSE, sub |-> identity]

Response(status, error, message, id, rows, token) ==
    [status |-> status, error |-> error, message |-> message, id |-> id,
     tasks |-> rows, token |-> token]

ErrorResponse(status, error) == Response(status, error, "", 0, <<>>, NoToken)

MessageResponse(status, message) == Response(status, "", message, 0, <<>>, NoToken)

\* @jwt_required() of flask_jwt_extended with the library's default error
\* callbacks (the application registers none): a missing header and an
\* expired token answer 401, a token that does not decode or whose signature
\* does not verify answers 422.  ok = TRUE lets the view function run, and
\* get_jwt_identity() then returns identity.
jwt_required(token) ==
    IF ~token.present
    THEN [ok |-> FALSE, identity |-> 0,
          resp |-> ErrorResponse(401, "Missing Authorization Header")]
    ELSE IF ~token.wellformed
    THEN [ok |-> FALSE, identity |-> 0,
          resp |-> ErrorResponse(422, "Not enough segments")]
    ELSE IF token.key # JWT_SECRET_KEY
    THEN [ok |-> FALSE, identity |-> 0,
          resp |-> ErrorResponse(422, "Signature verification failed")]
    ELSE IF token.expired
    THEN [ok |-> FALSE, identity |-> 0,
          resp |-> ErrorResponse(401, "Token has expired")]
    ELSE [ok |-> TRUE, identity |-> token.sub,
          resp |-> MessageResponse(200, "")]

-----------------------------------------------------------------------------
(* Routing                                                                 *)

\* The rules registered with @app.route, as (method, rule) pairs.
\* delete_task carries no @app.route: no rule is registered for DELETE.
url_map ==
    { <<"GET", "/">>,
      <<"GET", "/tasks">>,
      <<"POST", "/tasks">>,
      <<"PUT", "/tasks/<int:task_id>">> }

\* The view functions decorated with @jwt_required().
jwt_protected == {"get_tasks", "add_task", "update_task"}

\* Flask's answer when no view function is dispatched: 405 when the rule is
\* registered for other methods only, 404 when no rule matches the path.
DispatchError(method, rule) ==
    IF \E m \in {"GET", "POST", "PUT", "DELETE"} : <<m, rule>> \in url_map
    THEN ErrorResponse(405, "Method Not Allowed")
    ELSE ErrorResponse(404, "Not Found")

\* An exception that leaves a view function: Flask answers 500.
InternalServerError == ErrorResponse(500, "Internal Server Error")

-----------------------------------------------------------------------------
(* The tasks table                                                         *)

\* tasks is a function from the ids of the stored rows to the rows.
Row(user_id, title, description, category, priority, status) ==
    [user_id |-> user_id, title |-> title, description |-> description,
     category |-> category, priority |-> priority, status |-> status]

Max(S) == CHOOSE x \in S : \A y \in S : y <= x

\* The rowid SQLite assigns to an inserted row: one more than the largest.
lastrowid(table) == IF DOMAIN table = {} THEN 1 ELSE Max(DOMAIN table) + 1

RECURSIVE IdsFrom(_, _)
IdsFrom(S, lo) ==
    IF \A i \in S : i < lo THEN <<>>
    ELSE IF lo \in S THEN <<lo>> \o IdsFrom(S, lo + 1)
    ELSE IdsFrom(S, lo + 1)

\* The ids of a set in rowid order.
SortedIds(S) == IdsFrom(S, 1)

\* dict(row) of one selected row.
TaskDict(table, id) ==
    [id |-> id, title |-> table[id].title, description |-> table[id].description,
     category |-> table[id].category, priority |-> table[id].priority,
     status |-> table[id].status]

\* SELECT id, title, description, category, priority, status
\* FROM tasks WHERE user_id = ?
select_tasks(table, user_id) ==
    LET ids == SortedIds({i \in DOMAIN table : table[i].user_id = user_id})
    IN  [k \in 1..Len(ids) |-> TaskDict(table, ids[k])]

\* INSERT INTO tasks (user_id, title, description, category, priority, status)
insert_task(table, user_id, v) ==
    [i \in DOMAIN table \cup {lastrowid(table)} |->
        IF i \in DOMAIN table THEN table[i]
        ELSE Row(user_id, v.title, v.description, v.category, v.priority, v.status)]

\* Matching with the owner left out of the WHERE clause.
Matching_AnyOwner(table, task_id, user_id) == {i \in DOMAIN table : i = task_id}

\* The rows an UPDATE or DELETE with WHERE id = ? AND user_id = ? matches.
Matching(table, task_id, user_id) ==
    {i \in DOMAIN table : i = task_id /\ table[i].user_id = user_id}

\* update_rows with description left out of the SET clause.
update_rows_KeepDescription(table, task_id, user_id, v) ==
    [i \in DOMAIN table |->
        IF i = task_id /\ table[i].user_id = user_id
        THEN Row(table[i].user_id, v.title, table[i].description, v.category,
                 v.priority, v.status)
        ELSE table[i]]

\* UPDATE tasks SET title = ?, description = ?, category = ?, priority = ?,
\* status = ? WHERE id = ? AND user_id = ?
update_rows(table, task_id, user_id, v) ==
    [i \in DOMAIN table |->
        IF i \in Matching(table, task_id, user_id)
        THEN Row(table[i].user_id, v.title, v.description, v.category,
                 v.priority, v.status)
        ELSE table[i]]

\* DELETE FROM tasks WHERE id = ? AND user_id = ?
delete_rows(table, task_id, user_id) ==
    [i \in DOMAIN table \ Matching(table, task_id, user_id) |-> table[i]]

-----------------------------------------------------------------------------
(* The view functions                                                      *)

\* user_id = get_jwt_identity() at the top of a view function.  Under
\* @jwt_required() the token was verified before the function ran; without the
\* decorator no token was verified, and get_jwt_identity() raises
\* RuntimeError, which leaves the function (the call is outside its try).
get_jwt_identity(view, token) ==
    IF view \in jwt_protected THEN jwt_required(token)
    ELSE [ok |-> FALSE, identity |-> 0, resp |-> InternalServerError]

\* `if not data`: request.get_json() gave None or an empty object.
NoData(data) ==
    /\ data.title.t = "absent"
    /\ data.description.t = "absent"
    /\ data.category.t = "absent"
    /\ data.priority.t = "absent"
    /\ data.status.t = "absent"

\* task_fields with the wrong default for an omitted priority.
task_fields_LowDefault(data) ==
    [title |-> Get(data.title, Null),
     description |-> Get(data.description, JStr(EmptyStr)),
     category |-> Get(data.category, JStr(Personal)),
     priority |-> Get(data.priority, JStr(Low)),
     status |-> PyInt(Get(data.status, JInt(0)))]

\* title = data.get("title") ... status = int(data.get("status", 0))
task_fields(data) ==
    [title |-> Get(data.title, Null),
     description |-> Get(data.description, JStr(EmptyStr)),
     category |-> Get(data.category, JStr(Personal)),
     priority |-> Get(data.priority, JStr(Medium)),
     status |-> PyInt(Get(data.status, JInt(0)))]

\* BadTitle without the check of the stripped title.
BadTitle_NoStrip(title) ==
    \/ ~Truthy(title)
    \/ title.t # "str"

\* not title or not isinstance(title, str) or not title.strip()
BadTitle(title) ==
    \/ ~Truthy(title)
    \/ title.t # "str"
    \/ strip(title.s) = <<>>

BadCategory(category) == ~(category.t = "str" /\ category.s \in valid_categories)

BadPriority(priority) == ~(priority.t = "str" /\ priority.s \in valid_priorities)

\* The values bound to the statement's parameters.
Params(f) ==
    [title |-> f.title.s, description |-> f.description.s,
     category |-> f.category.s, priority |-> f.priority.s, status |-> f.status.n]

NoParams ==
    [title |-> EmptyStr, description |-> EmptyStr, category |-> EmptyStr,
     priority |-> EmptyStr, status |-> 0]

Rejected(answer) ==
    [ok |-> FALSE, identity |-> 0, params |-> NoParams, resp |-> answer]

\* The part of add_task and update_task before the store is opened: the
\* guard, the body, int(status), then the checks of title, category and
\* priority.  titleError is the message of the view function's title check.
check_task_request(view, r, titleError) ==
    LET g == get_jwt_identity(view, r.token)
        f == task_fields(r.data)
    IN  IF ~g.ok THEN Rejected(g.resp)
        ELSE IF NoData(r.data) THEN Rejected(ErrorResponse(400, "Invalid JSON"))
        ELSE IF ~f.status.ok THEN Rejected(InternalServerError)
        ELSE IF BadTitle(f.title) THEN Rejected(ErrorResponse(400, titleError))
        ELSE IF BadCategory(f.category)
        THEN Rejected(ErrorResponse(400, "Invalid category"))
        ELSE IF BadPriority(f.priority)
        THEN Rejected(ErrorResponse(400, "Invalid priority"))
        ELSE [ok |-> TRUE, identity |-> g.identity, params |-> Params(f),
              resp |-> MessageResponse(200, "")]

get_tasks_check(r) ==
    LET g == get_jwt_identity("get_tasks", r.token)
    IN  IF ~g.ok THEN Rejected(g.resp)
        ELSE [ok |-> TRUE, identity |-> g.identity, params |-> NoParams,
              resp |-> MessageResponse(200, "")]

get_tasks_store(table, user_id) ==
    [tasks |-> table,
     resp |-> Response(200, "", "", 0, select_tasks(table, user_id), NoToken)]

add_task_check(r) ==
    check_task_request("add_task", r,
                       "Title is required and must be a non-empty string")

add_task_store(table, user_id, v) ==
    [tasks |-> insert_task(table, user_id, v),
     resp |-> Response(201, "", "Task added", lastrowid(table), <<>>, NoToken)]

update_task_check(r) ==
    check_task_request("update_task", r, "Title is required and must be a string")

update_task_store(table, task_id, user_id, v) ==
    [tasks |-> update_rows(table, task_id, user_id, v),
     resp |-> IF Matching(table, task_id, user_id) = {}
              THEN ErrorResponse(404, "Task not found or unauthorized")
              ELSE MessageResponse(200, "Task updated")]

\* delete_task is a plain function: it has no @app.route and no
\* @jwt_required(), so no request is dispatched to it (see Routed), and its
\* get_jwt_identity() would raise if one were.
delete_task_check(r) ==
    LET g == get_jwt_identity("delete_task", r.token)
    IN  IF ~g.ok THEN Rejected(g.resp)
        ELSE [ok |-> TRUE, identity |-> g.identity, params |-> NoParams,
              resp |-> MessageResponse(200, "")]

delete_task_store(table, task_id, user_id) ==
    [tasks |-> delete_rows(table, task_id, user_id),
     resp |-> IF Matching(table, task_id, user_id) = {}
              THEN ErrorResponse(404, "Task not found or unauthorized")
              ELSE MessageResponse(200, "Task deleted")]

\* The method and rule of a task request, and the view function that would
\* serve it.
MethodOf(op) ==
    CASE op = "list" -> "GET" [] op = "create" -> "POST"
      [] op = "update" -> "PUT" [] op = "delete" -> "DELETE"

RuleOf(op) ==
    IF op \in {"list", "create"} THEN "/tasks" ELSE "/tasks/<int:task_id>"

Routed(op) == <<MethodOf(op), RuleOf(op)>> \in url_map

\* What happens to a request before any statement runs.
Check(r) ==
    IF ~Routed(r.op) THEN Rejected(DispatchError(MethodOf(r.op), RuleOf(r.op)))
    ELSE CASE r.op = "list" -> get_tasks_check(r)
           [] r.op = "create" -> add_task_check(r)
           [] r.op = "update" -> update_task_check(r)
           [] r.op = "delete" -> delete_task_check(r)

\* The statement of a request that passed Check, and the response after it.
\* c is Check(r).
Store(table, r, c) ==
    CASE r.op = "list" -> get_tasks_store(table, c.identity)
      [] r.op = "create" -> add_task_store(table, c.identity, c.params)
      [] r.op = "update" -> update_task_store(table, r.task_id, c.identity, c.params)
      [] r.op = "delete" -> delete_task_store(table, r.task_id, c.identity)

\* One whole request against a table: [tasks, resp].
Handle(table, r) ==
    LET c == Check(r)
    IN  IF c.ok THEN Store(table, r, c)
        ELSE [tasks |-> table, resp |-> c.resp]

-----------------------------------------------------------------------------
(* Login                                                                   *)

\* The one-way hash of a password and its verification.
generate_password_hash(password) == <<"bcrypt", password>>

check_password_hash(hash, password) == hash = generate_password_hash(password)

\* The registered users (registration itself is outside the model).
users ==
    { [id |-> 1, username |-> "alice", password |-> generate_password_hash("secret")],
      [id |-> 2, username |-> "bob", password |-> generate_password_hash("hunter2")] }

\* login with an answer of its own for an unknown username.
login_UnknownUser(username, password) ==
    LET found == {u \in users : u.username = username}
    IN  IF found = {} THEN ErrorResponse(401, "Unknown username")
        ELSE LET u == CHOOSE x \in found : TRUE
             IN  IF check_password_hash(u.password, password)
                 THEN Response(200, "", "", 0, <<>>, create_access_token(u.id))
                 ELSE ErrorResponse(401, "Invalid username or password")

\* login(username, password): a token whose subject is the user's id when the
\* username exists and the password verifies against its hash; otherwise one
\* and the same 401 response.
login(username, password) ==
    LET found == {u \in users : u.username = username}
    IN  IF found = {} THEN ErrorResponse(401, "Invalid username or password")
        ELSE LET u == CHOOSE x \in found : TRUE
             IN  IF check_password_hash(u.password, password)
                 THEN Response(200, "", "", 0, <<>>, create_access_token(u.id))
                 ELSE ErrorResponse(401, "Invalid username or password")

-----------------------------------------------------------------------------
(* The requests of the model                                               *)

UserIds == {u.id : u \in users}

Malformed == [present |-> TRUE, wellformed |-> FALSE, key |-> "", expired |-> FALSE, sub |-> 0]

Forged(u) == [create_access_token(u) EXCEPT !.key = "otherkey"]

Expired(u) == [create_access_token(u) EXCEPT !.expired = TRUE]

ValidTokens == {create_access_token(u) : u \in UserIds}

BadTokens == {NoToken, Malformed} \cup {Forged(u) : u \in UserIds} \cup {Expired(u) : u \in UserIds}

Body(title, description, category, priority, status) ==
    [title |-> title, description |-> description, category |-> category,
     priority |-> priority, status |-> status]

NoBody == Body(Absent, Absent, Absent, Absent, Absent)

TitleA == JStr(<<"a">>)
TitleB == JStr(<<" ", "b">>)
DescD == JStr(<<"d">>)
Invalid == JStr(<<"I", "n", "v", "a", "l", "i", "d">>)

ValidBodies ==
    { Body(TitleA, Absent, Absent, Absent, Absent),
      Body(TitleB, Absent, Absent, Absent, Absent),
      Body(TitleA, DescD, JStr(Work), JStr(High), JInt(1)),
      Body(TitleB, Absent, JStr(Study), JStr(Low), JStr(<<" ", "1">>)) }

InvalidBodies ==
    { NoBody,
      Body(Absent, DescD, JStr(Work), JStr(High), JInt(1)),
      Body(JStr(EmptyStr), Absent, Absent, Absent, Absent),
      Body(JStr(<<" ">>), Absent, Absent, Absent, Absent),
      Body(JInt(7), Absent, Absent, Absent, Absent),
      Body(TitleA, Absent, Invalid, Absent, Absent),
      Body(TitleA, Absent, Absent, Invalid, Absent),
      Body(TitleA, Absent, Absent, Absent, JStr(<<"x">>)),
      Body(TitleA, Absent, Invalid, Absent, JStr(<<"x">>)),
      Body(TitleA, DescD, Invalid, Invalid, JInt(1)) }

Bodies == ValidBodies \cup InvalidBodies

\* The bodies sent with a token the guard rejects: one that would be
\* written, one that would fail the checks.
ProbeBodies ==
    { Body(TitleA, DescD, JStr(Work), JStr(High), JInt(1)),
      Body(TitleA, Absent, Invalid, Absent, Absent) }

TaskIds == 1..MaxTasks

Request(op, token, task_id, data) ==
    [op |-> op, token |-> token, task_id |-> task_id, data |-> data,
     username |-> "", password |-> ""]

NoRequest == Request("none", NoToken, 0, NoBody)

Tokens == ValidTokens \cup BadTokens

ListRequests == {Request("list", t, 0, NoBody) : t \in Tokens}

CreateRequests ==
    {Request("create", t, 0, b) : t \in ValidTokens, b \in Bodies}
    \cup {Request("create", t, 0, b) : t \in BadTokens, b \in ProbeBodies}

UpdateRequests ==
    {Request("update", t, i, b) : t \in ValidTokens, i \in TaskIds, b \in Bodies}
    \cup {Request("update", t, i, b) : t \in BadTokens, i \in TaskIds, b \in ProbeBodies}

DeleteRequests == {Request("delete", t, i, NoBody) : t \in Tokens, i \in TaskIds}

Usernames == {"alice", "bob", "carol"}

Passwords == {"secret", "hunter2"}

LoginRequests ==
    {[Request("login", NoToken, 0, NoBody) EXCEPT !.username = n, !.password = p] :
        n \in Usernames, p \in Passwords}

-----------------------------------------------------------------------------
(* The server handling one request at a time                               *)
(*                                                                         *)
(* req and resp hold the request being answered and its response, from the *)
(* step that handles it until the response is delivered.                   *)

Workers == {1, 2}

NoResponse == ErrorResponse(0, "")

Idle == [pc |-> "idle", req |-> NoRequest, resp |-> NoResponse]

Init ==
    /\ tasks = <<>>
    /\ req = NoRequest
    /\ resp = NoResponse
    /\ workers = [w \in Workers |-> Idle]

\* A whole request: dispatch, guard, checks, statement, response.
Serve(r) ==
    LET h == Handle(tasks, r)
    IN  /\ req = NoRequest
        /\ Cardinality(DOMAIN h.tasks) <= MaxTasks
        /\ tasks' = h.tasks
        /\ req' = r
        /\ resp' = h.resp
        /\ UNCHANGED workers

ListRequest == \E r \in ListRequests : Serve(r)

CreateRequest == \E r \in CreateRequests : Serve(r)

UpdateRequest == \E r \in UpdateRequests : Serve(r)

DeleteRequest == \E r \in DeleteRequests : Serve(r)

LoginRequest ==
    \E r \in LoginRequests :
        /\ req = NoRequest
        /\ req' = r
        /\ resp' = login(r.username, r.password)
        /\ UNCHANGED <<tasks, workers>>

\* The response leaves the server; the table is all that remains.
Deliver ==
    /\ req # NoRequest
    /\ req' = NoRequest
    /\ resp' = NoResponse
    /\ UNCHANGED <<tasks, workers>>

Next ==
    \/ DeleteRequest
    \/ UpdateRequest
    \/ CreateRequest
    \/ ListRequest
    \/ LoginRequest
    \/ Deliver

Spec == Init /\ [][Next]_vars

-----------------------------------------------------------------------------
(* The server handling requests concurrently                               *)
(*                                                                         *)
(* Flask's server runs each request in a thread of its own.  A view        *)
(* function works on the request alone until it opens the store, runs its  *)
(* one statement and commits; the statement is the only step that reads or *)
(* writes the table, and SQLite runs it atomically.  workers[w] is the     *)
(* request thread w handles: "ready" when it passed the checks and its     *)
(* statement has not run, "done" when its response is made.                *)

RaceBodies ==
    { Body(TitleA, Absent, Absent, Absent, Absent),
      Body(TitleB, Absent, Absent, Absent, Absent),
      Body(TitleA, DescD, JStr(Work), JStr(High), JInt(1)),
      Body(TitleA, Absent, Invalid, Absent, Absent) }

RaceRequests ==
    {Request("list", t, 0, NoBody) : t \in ValidTokens}
    \cup {Request("create", t, 0, b) : t \in ValidTokens, b \in RaceBodies}
    \cup {Request("update", t, i, b) : t \in ValidTokens, i \in TaskIds, b \in RaceBodies}
    \cup {Request("delete", t, i, NoBody) : t \in ValidTokens, i \in TaskIds}

\* Thread w takes a request up to the point where the store is opened.
Accept(w) ==
    /\ workers[w].pc = "idle"
    /\ \E r \in RaceRequests :
        LET c == Check(r)
        IN  workers' = [workers EXCEPT ![w] =
                IF c.ok THEN [pc |-> "ready", req |-> r, resp |-> NoResponse]
                ELSE [pc |-> "done", req |-> r, resp |-> c.resp]]
    /\ UNCHANGED <<tasks, req, resp>>

\* Thread w runs its statement, commits and makes its response.
Execute(w) ==
    /\ workers[w].pc = "ready"
    /\ LET r == workers[w].req
           h == Store(tasks, r, Check(r))
       IN  /\ Cardinality(DOMAIN h.tasks) <= MaxTasks
           /\ tasks' = h.tasks
           /\ workers' = [workers EXCEPT ![w] =
                            [pc |-> "done", req |-> r, resp |-> h.resp]]
    /\ UNCHANGED <<req, resp>>

\* Thread w sends its response and is free again.
Respond(w) ==
    /\ workers[w].pc = "done"
    /\ workers' = [workers EXCEPT ![w] = Idle]
    /\ UNCHANGED <<tasks, req, resp>>

NextConc == \E w \in Workers : Accept(w) \/ Execute(w) \/ Respond(w)

SpecConc == Init /\ [][NextConc]_vars

-----------------------------------------------------------------------------
(* Notions the properties are stated with                                  *)

TaskOps == {"list", "create", "update", "delete"}

\* The caller of a request that carries a good token.
Authenticated(r) == r.token \in ValidTokens

Caller(r) == r.token.sub

Categories == {Work, Personal, Study, Shopping, Other}

Priorities == {Low, Medium, High}

\* The entries a list by owner u is to show, as a set.
OwnedEntries(table, u) ==
    { [id |-> i, title |-> table[i].title, description |-> table[i].description,
       category |-> table[i].category, priority |-> table[i].priority,
       status |-> table[i].status] :
        i \in {j \in DOMAIN table : table[j].user_id = u} }

Entries(list) == {list[k] : k \in 1..Len(list)}

\* A list response shows exactly the caller's rows, each once.
ListShowsOwnRows ==
    (req.op = "list" /\ Authenticated(req)) =>
        /\ resp.status = 200
        /\ Entries(resp.tasks) = OwnedEntries(tasks, Caller(req))
        /\ Len(resp.tasks) = Cardinality(OwnedEntries(tasks, Caller(req)))

\* The title of a body is missing, not a string, or empty after trimming.
TitleMissing(d) == d.title.t # "str" \/ strip(d.title.s) = <<>>

CategoryOutOfSet(d) == d.category.t # "absent" /\ d.category.s \notin Categories

PriorityOutOfSet(d) == d.priority.t # "absent" /\ d.priority.s \notin Priorities

\* The value a request field is to be stored as: the field's own value, or
\* the create-time default when the body omits it.
StringOr(v, default) == IF v.t = "absent" THEN default ELSE v.s

StatusOr(v) ==
    IF v.t = "absent" THEN 0
    ELSE IF v.t = "int" THEN v.n
    ELSE IF v = JStr(<<" ", "1">>) THEN 1
    ELSE -1

\* The row a request of owner u with body d is to store.
RowOf(u, d) ==
    [user_id |-> u, title |-> d.title.s,
     description |-> StringOr(d.description, EmptyStr),
     category |-> StringOr(d.category, Personal),
     priority |-> StringOr(d.priority, Medium),
     status |-> StatusOr(d.status)]

TitleOnly(d) ==
    /\ d.title.t = "str"
    /\ d.description.t = "absent"
    /\ d.category.t = "absent"
    /\ d.priority.t = "absent"
    /\ d.status.t = "absent"

-----------------------------------------------------------------------------
(* C1 *)

\* A task request by a user other than the owner of row i leaves row i as it
\* is; a list does not show it, and an update with a well-formed body or a
\* delete aimed at it answers 404.
IsolatedFrom(i) ==
    (/\ req'.op \in TaskOps
     /\ Authenticated(req')
     /\ Caller(req') # tasks[i].user_id)
    => /\ i \in DOMAIN tasks'
       /\ tasks'[i] = tasks[i]
       /\ req'.op = "list" => \A e \in Entries(resp'.tasks) : e.id # i
       /\ (req'.op = "update" /\ req'.task_id = i /\ req'.data \in ValidBodies)
            => resp'.status = 404
       /\ (req'.op = "delete" /\ req'.task_id = i) => resp'.status = 404

\* C1: ownership isolation.  For users A # B and a task created by A, B's
\* list never contains it, and B's update and B's delete of its id both
\* answer 404 and leave the row unchanged.
C1_OwnershipIsolation == [][\A i \in DOMAIN tasks : IsolatedFrom(i)]_vars

-----------------------------------------------------------------------------
(* C2 *)

\* C2: token gating.  Each of list, create, update and delete, invoked with
\* no token, a malformed, an expired or a wrongly signed token, answers 401
\* and leaves the task table as it is.
C2_TokenGating ==
    [][(req'.op \in TaskOps /\ req'.token \in BadTokens)
        => (resp'.status = 401 /\ tasks' = tasks)]_vars

-----------------------------------------------------------------------------
(* C3 *)

\* C3: validation rejects with no write.  An authenticated create or update
\* whose category or priority is outside its enumeration, or whose title is
\* missing or empty after trimming, answers 400 and leaves the table as it is.
C3_ValidationRejects ==
    [][(/\ req'.op \in {"create", "update"}
        /\ Authenticated(req')
        /\ \/ TitleMissing(req'.data)
           \/ CategoryOutOfSet(req'.data)
           \/ PriorityOutOfSet(req'.data))
        => (resp'.status = 400 /\ tasks' = tasks)]_vars

-----------------------------------------------------------------------------
(* C4 *)

CreateWithDefaults ==
    (/\ req'.op = "create"
     /\ Authenticated(req')
     /\ TitleOnly(req'.data)
     /\ ~TitleMissing(req'.data)
     /\ OwnedEntries(tasks, Caller(req')) = {})
    => /\ resp'.status = 201
       /\ resp'.id \notin DOMAIN tasks
       /\ OwnedEntries(tasks', Caller(req')) =
            { [id |-> resp'.id, title |-> req'.data.title.s,
               description |-> EmptyStr, category |-> Personal,
               priority |-> Medium, status |-> 0] }

\* C4: round trip with defaults.  For an owner with no tasks, a create with
\* a title and nothing else answers 201 with the new id, and the owner's rows
\* are then exactly one, with that id, that title, description "", category
\* Personal, priority Medium and status 0; a list shows exactly the owner's
\* rows.
C4_RoundTripDefaults == [][CreateWithDefaults]_vars /\ []ListShowsOwnRows

\* A list that shows exactly the one task a title-only create stored.
C4_Witness ==
    /\ req.op = "list"
    /\ Authenticated(req)
    /\ resp.status = 200
    /\ resp.tasks = << [id |-> 1, title |-> <<" ", "b">>, description |-> EmptyStr,
                        category |-> Personal, priority |-> Medium, status |-> 0] >>

-----------------------------------------------------------------------------
(* C5 *)

\* C5: delete of an id the caller owns no row of answers 404 and leaves the
\* table as it is.
C5_DeleteNotFound ==
    [][(/\ req'.op = "delete"
        /\ Authenticated(req')
        /\ ~(/\ req'.task_id \in DOMAIN tasks
             /\ tasks[req'.task_id].user_id = Caller(req')))
        => (resp'.status = 404 /\ tasks' = tasks)]_vars

-----------------------------------------------------------------------------
(* C6 *)

CredentialsMatch(r) ==
    \E u \in users :
        u.username = r.username /\ u.password = generate_password_hash(r.password)

\* C6: the credential check does not distinguish.  Every failed login, for
\* an unknown username as for a wrong password, gets one and the same 401
\* response, and a login issues a token, whose subject is the user's id, only
\* when the username exists and the password matches its hash.
C6_LoginNonDistinguishing ==
    req.op = "login" =>
        IF CredentialsMatch(req)
        THEN /\ resp.status = 200
             /\ \E u \in users :
                    /\ u.username = req.username
                    /\ resp.token = create_access_token(u.id)
        ELSE resp = ErrorResponse(401, "Invalid username or password")

\* A login with a registered username and a wrong password that failed.
C6_Witness ==
    /\ req.op = "login"
    /\ req.username = "alice"
    /\ req.password = "hunter2"
    /\ resp.status = 401

-----------------------------------------------------------------------------
(* C7 *)

UpdateRewritesOneRow ==
    (req'.op = "update" /\ resp'.status = 200)
    => /\ Authenticated(req')
       /\ req'.task_id \in DOMAIN tasks
       /\ tasks[req'.task_id].user_id = Caller(req')
       /\ DOMAIN tasks' = DOMAIN tasks
       /\ tasks'[req'.task_id] = RowOf(tasks[req'.task_id].user_id, req'.data)
       /\ \A j \in DOMAIN tasks : j # req'.task_id => tasks'[j] = tasks[j]
       /\ {e.id : e \in OwnedEntries(tasks', Caller(req'))} =
            {e.id : e \in OwnedEntries(tasks, Caller(req'))}

\* C7: update is a full-row rewrite with immutable identity.  An update that
\* answers 200 aimed a row of the caller's; it sets that row's title,
\* description, category, priority and status to the request's values, keeps
\* its id and owner, leaves every other row as it is, and the owner's set of
\* ids is the same as before.
C7_UpdateFullRewrite == [][UpdateRewritesOneRow]_vars

\* An update of row 1 that succeeded beside a second row, with the new title
\* and the full set of fields stored.
C7_Witness ==
    /\ req.op = "update"
    /\ resp.status = 200
    /\ req.task_id = 1
    /\ req.data = Body(TitleB, Absent, JStr(Study), JStr(Low), JStr(<<" ", "1">>))
    /\ DOMAIN tasks = {1, 2}
    /\ tasks[1] = Row(Caller(req), <<" ", "b">>, EmptyStr, Study, Low, 1)
    /\ tasks[2].user_id = Caller(req)

-----------------------------------------------------------------------------
(* C8 *)

RowsWellFormed ==
    \A i \in DOMAIN tasks :
        /\ tasks[i].user_id \in UserIds
        /\ tasks[i].category \in Categories
        /\ tasks[i].priority \in Priorities
        /\ strip(tasks[i].title) # <<>>

\* A row appears only by a create of an authenticated caller, who is its
\* owner, and a row's owner never changes.
OwnerIsCreator ==
    \A i \in DOMAIN tasks' :
        IF i \in DOMAIN tasks THEN tasks'[i].user_id = tasks[i].user_id
        ELSE /\ req'.op = "create"
             /\ Authenticated(req')
             /\ tasks'[i].user_id = Caller(req')

\* C8: data-model invariant.  In every reachable state every stored task has
\* one owner, the caller that created it, a category and a priority of their
\* enumerations, and a title that is not empty after trimming.
C8_DataModelInvariant == []RowsWellFormed /\ [][OwnerIsCreator]_vars

\* Two stored rows of two owners, one with a category and a priority other
\* than the defaults, after a request that was rejected.
C8_Witness ==
    /\ DOMAIN tasks = {1, 2}
    /\ tasks[1].user_id # tasks[2].user_id
    /\ tasks[1].category = Work
    /\ tasks[2].title = <<" ", "b">>
    /\ req.op = "update"
    /\ resp.status = 400

-----------------------------------------------------------------------------
(* C10 *)

UpdateResetsOmitted ==
    (req'.op = "update" /\ resp'.status = 200)
    => LET d == req'.data
           row == tasks'[req'.task_id]
       IN  /\ req'.task_id \in DOMAIN tasks'
           /\ d.description.t = "absent" => row.description = EmptyStr
           /\ d.category.t = "absent" => row.category = Personal
           /\ d.priority.t = "absent" => row.priority = Medium
           /\ d.status.t = "absent" => row.status = 0
           /\ TitleOnly(d) =>
                row = Row(Caller(req'), d.title.s, EmptyStr, Personal, Medium, 0)

\* What a create with the same title alone stores.
CreateStoresDefaults ==
    (req'.op = "create" /\ resp'.status = 201 /\ TitleOnly(req'.data))
    => /\ resp'.id \in DOMAIN tasks'
       /\ tasks'[resp'.id] =
            Row(Caller(req'), req'.data.title.s, EmptyStr, Personal, Medium, 0)

\* C10: update does not preserve omitted fields.  An update that answers 200
\* stores the create-time default for each of description, category, priority
\* and status its body omits, whatever the row held; with a title alone the
\* row's contents are those a create with that title stores.
C10_UpdateResetsOmitted == [][UpdateResetsOmitted /\ CreateStoresDefaults]_vars

\* An update with a title alone that succeeded on a row beside which the
\* owner's other row still holds the values of a full body.
C10_Witness ==
    /\ req.op = "update"
    /\ resp.status = 200
    /\ TitleOnly(req.data)
    /\ DOMAIN tasks = {1, 2}
    /\ tasks[req.task_id] = Row(Caller(req), <<"a">>, EmptyStr, Personal, Medium, 0)
    /\ \E j \in DOMAIN tasks :
        /\ j # req.task_id
        /\ tasks[j] = Row(Caller(req), <<"a">>, <<"d">>, Work, High, 1)

-----------------------------------------------------------------------------
(* C9 *)

\* Thread w runs its statement in this step.
Executes(w) == workers[w].pc = "ready" /\ workers'[w].pc = "done"

\* (i) The statement of a request of owner A changes nothing of what a list
\* by another owner shows.
OwnersDoNotInteract ==
    \A w \in Workers :
        Executes(w) =>
            \A u \in UserIds \ {Caller(workers[w].req)} :
                OwnedEntries(tasks', u) = OwnedEntries(tasks, u)

\* (ii) A row that appears or changes holds the complete field set of the
\* one create or update whose statement ran in the step.
NoMixedRows ==
    \A i \in DOMAIN tasks' :
        (i \notin DOMAIN tasks \/ tasks'[i] # tasks[i]) =>
            \E w \in Workers :
                /\ Executes(w)
                /\ workers[w].req.op \in {"create", "update"}
                /\ tasks'[i] = RowOf(Caller(workers[w].req), workers[w].req.data)

\* Threads w1 and w2 hold an update and a delete of one owner for one task.
SameTarget(w1, w2) ==
    /\ workers[w1].req.op = "update"
    /\ workers[w2].req.op = "delete"
    /\ Caller(workers[w1].req) = Caller(workers[w2].req)
    /\ workers[w1].req.task_id = workers[w2].req.task_id

\* (ii) An update whose statement runs when the delete of the same task is
\* already answered answers 404 and does not recreate the row.
UpdateAfterDelete ==
    \A w1, w2 \in Workers :
        (SameTarget(w1, w2) /\ workers[w2].pc = "done" /\ Executes(w1))
        => /\ workers'[w1].resp.status = 404
           /\ workers[w1].req.task_id \notin DOMAIN tasks'

\* (ii) When the update and the delete are both answered, the state is that
\* of one of their two serial orders: in either, the owner has no row of
\* that id.
RaceEndsAsSerial ==
    \A w1, w2 \in Workers :
        (SameTarget(w1, w2) /\ workers[w1].pc = "done" /\ workers[w2].pc = "done")
        => ~(/\ workers[w2].req.task_id \in DOMAIN tasks
             /\ tasks[workers[w2].req.task_id].user_id = Caller(workers[w2].req))

\* C9: concurrent requests.  Under any interleaving, requests of one owner
\* never change what another owner's list shows, and when an update and a
\* delete of the same owner race on one task the final state is that of one
\* of their serial orders: the row is absent or holds the complete field set
\* of exactly one update, and an update after the delete answers 404 and does
\* not recreate the row.
C9_ConcurrentRequests ==
    /\ [][OwnersDoNotInteract /\ NoMixedRows /\ UpdateAfterDelete]_vars
    /\ []RaceEndsAsSerial

====
